---- MODULE Spec2Model ----
(***************************************************************************)
(* A model of mssql_tray.py: ContainerStatus, ContainerMonitor             *)
(* (check_status, poll, start, stop, restart) and MssqlTrayApp (the Qt     *)
(* tray that polls the monitor from a timer and drives it from a menu).    *)
(*                                                                         *)
(* Text is a sequence of one-character strings, so that str.strip(),       *)
(* str.splitlines() and list membership are computed as Python computes    *)
(* them.                                                                   *)
(***************************************************************************)
EXTENDS Naturals, Sequences, FiniteSets

VARIABLES
    container_name,     \* ContainerMonitor.container_name
    mssql_sh_path,      \* ContainerMonitor.mssql_sh_path
    last_status,        \* ContainerMonitor._last_status
    on_status_change,   \* ContainerMonitor.on_status_change
    engine,             \* the container engine at the latest status query
    result,             \* what the latest check_status() call did
    raised,             \* the fault the latest monitor call ended with
    pc,                 \* where the program is
    polling,            \* poll() invocations in progress
    timeout_due,        \* the QTimer has expired and its slot has not run
    timer_active,       \* the QTimer was started
    icon,               \* the tray icon's colour
    toolTip,            \* the tray's tooltip
    status_text,        \* the text of the menu's status line
    visible,            \* tray.show() was called
    recording,          \* whether the histories below are kept
    polls,              \* history: the polls that classified a status
    calls,              \* history: the callback invocations
    regs,               \* history: the assignments to on_status_change
    popen,              \* history: the subprocess.Popen calls
    acts,               \* history: the start()/stop()/restart() calls
    polled,             \* history: the poll() calls begun
    runs                \* history: the subprocess.run calls made

vars == << container_name, mssql_sh_path, last_status, on_status_change,
           engine, result, raised, pc, polling, timeout_due, timer_active,
           icon, toolTip, status_text, visible, recording,
           polls, calls, regs, popen, acts, polled, runs >>

---------------------------------------------------------------------------
(* Bounds of the model.                                                    *)

\* Longest container name "podman ps" lists under SpecClassify.
MaxNameLen == 3
\* Longest configured container name under SpecClassify.
MaxConfLen == 2
\* Most names "podman ps" lists under SpecClassify.
MaxNames == 2
\* Most operations on the monitor whose history is kept: polls,
\* start()/stop()/restart() calls and callback registrations.
MaxOps == 4

---------------------------------------------------------------------------
(* ContainerStatus.                                                        *)

None == "None"

RUNNING == "running"
STOPPED == "stopped"
UNKNOWN == "unknown"

ContainerStatus == { RUNNING, STOPPED, UNKNOWN }

\* Two colours for the three statuses.
TwoColours(status) == IF status = RUNNING THEN "green" ELSE "yellow"

color(status) ==
    CASE status = RUNNING -> "green"
      [] status = STOPPED -> "red"
      [] status = UNKNOWN -> "yellow"

label(status) ==
    CASE status = RUNNING -> "Running"
      [] status = STOPPED -> "Stopped"
      [] status = UNKNOWN -> "Unknown"

---------------------------------------------------------------------------
(* Text: str.strip(), str.splitlines(), and the output of "podman ps".     *)

NL == "\n"

\* The characters of a container name in the model.
Alphabet == { "a", "b" }

Whitespace == { NL, " " }

LineBreaks == { NL }

RECURSIVE lstrip(_)
lstrip(text) ==
    IF text = << >> THEN << >>
    ELSE IF Head(text) \in Whitespace THEN lstrip(Tail(text))
    ELSE text

RECURSIVE rstrip(_)
rstrip(text) ==
    IF text = << >> THEN << >>
    ELSE IF text[Len(text)] \in Whitespace
         THEN rstrip(SubSeq(text, 1, Len(text) - 1))
    ELSE text

strip(text) == rstrip(lstrip(text))

\* str.splitlines(): a line ends at each line break, and a text that ends
\* with a line break has no empty last line.
RECURSIVE SplitFrom(_, _, _)
SplitFrom(text, line, lines) ==
    IF text = << >>
    THEN IF line = << >> THEN lines ELSE Append(lines, line)
    ELSE IF Head(text) \in LineBreaks
         THEN SplitFrom(Tail(text), << >>, Append(lines, line))
         ELSE SplitFrom(Tail(text), Append(line, Head(text)), lines)

splitlines(text) == SplitFrom(text, << >>, << >>)

\* "podman ps --format {{.Names}}" prints each name on a line of its own.
RECURSIVE Render(_)
Render(names) ==
    IF names = << >> THEN << >>
    ELSE Head(names) \o << NL >> \o Render(Tail(names))

\* The non-empty texts over Alphabet of at most n characters.
NamesUpTo(n) == UNION { [ 1 .. k -> Alphabet ] : k \in 1 .. n }

\* The lists of at most n names, each of at most len characters.
ListsUpTo(n, len) == UNION { [ 1 .. k -> NamesUpTo(len) ] : k \in 0 .. n }

---------------------------------------------------------------------------
(* The outcomes of subprocess.run(["podman", "ps", ...], text=True,        *)
(* timeout=10): it returns a CompletedProcess, or it raises.               *)

\* The faults subprocess.run raises here: the timeout, a missing or
\* unexecutable podman, another failure of the operating system, and output
\* that is not text in the locale's encoding (text=True decodes it).
Faults == { "TimeoutExpired", "FileNotFoundError", "PermissionError",
            "OSError", "UnicodeDecodeError" }

\* The class each exception class derives from.
BaseOf(cls) ==
    CASE cls = "TimeoutExpired"     -> "SubprocessError"
      [] cls = "SubprocessError"    -> "Exception"
      [] cls = "FileNotFoundError"  -> "OSError"
      [] cls = "PermissionError"    -> "OSError"
      [] cls = "OSError"            -> "Exception"
      [] cls = "UnicodeDecodeError" -> "ValueError"
      [] cls = "ValueError"         -> "Exception"
      [] OTHER                      -> "Exception"

RECURSIVE IsInstance(_, _)
IsInstance(fault, classes) ==
    \/ fault \in classes
    \/ fault # "Exception" /\ IsInstance(BaseOf(fault), classes)

\* The container engine: "podman ps" lists names and exits with returncode,
\* or running it ends in fault.
Lists(returncode, names) ==
    [ kind |-> "completed", returncode |-> returncode, names |-> names,
      fault |-> None ]

Fails(fault) ==
    [ kind |-> "raised", returncode |-> 0, names |-> << >>, fault |-> fault ]

\* subprocess.run(..., capture_output=True, text=True, timeout=10)
subprocess_run(e) ==
    [ kind |-> e.kind, returncode |-> e.returncode,
      stdout |-> Render(e.names), fault |-> e.fault ]

ReturnCodes == { 0, 125 }

---------------------------------------------------------------------------
(* ContainerMonitor.check_status.                                          *)

Returned(status) == [ status |-> status, raised |-> None ]

Propagated(fault) == [ status |-> None, raised |-> fault ]

\* "self.container_name in names"
SubstringListed(name, names) ==
    \E i \in DOMAIN names :
        \E k \in 0 .. Len(names[i]) :
            k + Len(name) <= Len(names[i])
            /\ SubSeq(names[i], k + 1, k + Len(name)) = name

Listed(name, names) == \E i \in DOMAIN names : names[i] = name

\* "except (subprocess.TimeoutExpired, FileNotFoundError, OSError)"
ExceptClause == { "TimeoutExpired", "FileNotFoundError", "OSError" }

\* A non-zero exit code of the status query counts as a failed probe.
ChecksExitCode(name, outcome) ==
    IF outcome.kind = "completed"
    THEN IF outcome.returncode # 0 THEN Returned(UNKNOWN)
         ELSE IF Listed(name, splitlines(strip(outcome.stdout)))
         THEN Returned(RUNNING)
         ELSE Returned(STOPPED)
    ELSE IF IsInstance(outcome.fault, ExceptClause) THEN Returned(UNKNOWN)
    ELSE Propagated(outcome.fault)

check_status(name, outcome) ==
    IF outcome.kind = "completed"
    THEN LET names == splitlines(strip(outcome.stdout))
         IN  IF Listed(name, names) THEN Returned(RUNNING)
             ELSE Returned(STOPPED)
    ELSE IF IsInstance(outcome.fault, ExceptClause) THEN Returned(UNKNOWN)
    ELSE Propagated(outcome.fault)

---------------------------------------------------------------------------
(* The program's state after ContainerMonitor(container_name,              *)
(* mssql_sh_path), and the container engines it is run against.            *)

\* The configured name, the model's "mssql-server".
CONTAINER_NAME == << "a", "b" >>

MSSQL_SH_PATH == "/fake/mssql.sh"

\* _last_status after __init__.
StartsStopped == STOPPED

InitLastStatus == None

NoProbe == [ kind |-> "none", returncode |-> 0, names |-> << >>, fault |-> None ]

\* No check_status() call was made yet.
NoResult == [ status |-> None, raised |-> None ]

\* The engines under Spec and LiveSpec: nothing runs, the
\* container runs, one whose name extends the container's runs, the
\* container runs among others, podman fails with no output, and the faults.
DynEngines ==
    { Lists(0, << >>),
      Lists(0, << CONTAINER_NAME >>),
      Lists(0, << CONTAINER_NAME \o << "a" >> >>),
      Lists(0, << << "b" >>, CONTAINER_NAME >>),
      Lists(125, << >>),
      Fails("TimeoutExpired"),
      Fails("FileNotFoundError"),
      Fails("UnicodeDecodeError") }

\* The engines under SpecClassify.
AllEngines ==
    { Lists(rc, names) : rc \in ReturnCodes,
                         names \in ListsUpTo(MaxNames, MaxNameLen) }
      \cup { Fails(f) : f \in Faults }

InitCommon ==
    /\ mssql_sh_path = MSSQL_SH_PATH
    /\ last_status = InitLastStatus
    /\ on_status_change = None
    /\ result = NoResult
    /\ raised = None
    /\ polling = 0
    /\ timeout_due = FALSE
    /\ timer_active = FALSE
    /\ icon = None
    /\ toolTip = None
    /\ status_text = None
    /\ visible = FALSE
    /\ polls = << >>
    /\ calls = << >>
    /\ regs = << >>
    /\ popen = << >>
    /\ acts = << >>
    /\ polled = 0
    /\ runs = 0

Init ==
    /\ InitCommon
    /\ container_name = CONTAINER_NAME
    /\ engine = NoProbe
    /\ pc = "fresh"
    /\ recording = TRUE

---------------------------------------------------------------------------
(* Histories. They are kept while recording, within the bounds.            *)

Record(log, entry) == IF recording THEN Append(log, entry) ELSE log

Count(n, k) == IF recording THEN n + k ELSE n

Ops == polled + Len(acts) + Len(regs)

Budget == ~recording \/ Ops < MaxOps

---------------------------------------------------------------------------
(* ContainerMonitor.poll.                                                  *)

\* Only the first classification counts as a change.
OnlyFirst(current, previous) == previous = None

\* "if current != self._last_status"
AlwaysChanged(current, previous) == TRUE

StatusChanged(current, previous) == current # previous

\* "self.on_status_change(current)"
StaleArgument(current, previous) ==
    IF previous = None THEN current ELSE previous

CallbackArgument(current, previous) == current

\* MssqlTrayApp._on_status_change, the callback the tray registers.
TrayCallback == "_on_status_change"

\* The callbacks a client of the monitor registers (the tests' MagicMock).
ClientCallbacks == { "callback_1", "callback_2" }

\* What a callback can end in: the tray's sets three Qt properties; a
\* client's may raise.
CallbackFaults(slot) ==
    IF slot \in ClientCallbacks THEN { None, "Exception" } ELSE { None }

\* "self._icons[status]", one icon for each ContainerStatus.
icons == [ status \in ContainerStatus |-> color(status) ]

\* The subprocess.run calls of one check_status() call.
RetriesOnFault(outcome) == IF outcome.kind = "raised" THEN 2 ELSE 1

Spawns(outcome) == 1

\* "self._last_status = current" stands under the comparison alone, not
\* under "if self.on_status_change".
StoresWhenHeard(changed, slot) == changed /\ slot # None

StoresStatus(changed, slot) == changed

\* "self._last_status = current"
ForgetsUnknown(current) == IF current = UNKNOWN THEN None ELSE current

Stored(current) == current

\* "self._last_status = current" comes before the callback's call.
CallbackFirst == FALSE

StoredBeforeCallback == TRUE

\* poll(): classify, compare with _last_status, store, notify. The status
\* query finds the container engine as e, and the callback, if it is
\* called, ends in cbfault.
poll(e, cbfault) ==
    LET outcome  == subprocess_run(e)
        current  == check_status(container_name, outcome)
        changed  == /\ current.raised = None
                    /\ StatusChanged(current.status, last_status)
        notified == changed /\ on_status_change # None
        argument == CallbackArgument(current.status, last_status)
        thrown   == IF notified THEN cbfault ELSE None
        stored   == /\ StoresStatus(changed, on_status_change)
                    /\ StoredBeforeCallback \/ thrown = None
    IN  /\ engine' = e
        /\ result' = current
        /\ runs' = Count(runs, Spawns(outcome))
        /\ raised' = IF current.raised # None THEN current.raised ELSE thrown
        /\ last_status' = IF stored THEN Stored(current.status)
                          ELSE last_status
        /\ polls' = IF current.raised = None
                    THEN Record(polls, [ status |-> current.status,
                                         cb     |-> on_status_change,
                                         nregs  |-> Len(regs) ])
                    ELSE polls
        /\ calls' = IF notified
                    THEN Record(calls,
                                [ cb    |-> on_status_change,
                                  arg   |-> argument,
                                  poll  |-> Len(polls) + 1,
                                  last  |-> IF StoredBeforeCallback
                                            THEN Stored(current.status)
                                            ELSE last_status,
                                  fault |-> cbfault ])
                    ELSE calls
        /\ IF notified /\ on_status_change = TrayCallback
           THEN /\ icon' = icons[argument]
                /\ toolTip' = "MSSQL: " \o label(argument)
                /\ status_text' = "Status: " \o label(argument)
           ELSE UNCHANGED << icon, toolTip, status_text >>
        /\ UNCHANGED << container_name, mssql_sh_path, on_status_change,
                        timer_active, recording, regs, popen, acts >>

---------------------------------------------------------------------------
(* ContainerMonitor.start, stop, restart.                                  *)

Verbs == { "start", "stop", "restart" }

\* "[self.mssql_sh_path, <verb>]"
AlwaysStart(path, verb) == << path, "start" >>

ScriptArgv(path, verb) == << path, verb >>

\* subprocess.Popen(argv, stdout=DEVNULL, stderr=DEVNULL): the child is
\* launched, or the launch ends in fault; nothing waits for the child.
Popen(argv, fault) ==
    [ args |-> argv, stdout |-> "DEVNULL", stderr |-> "DEVNULL",
      waited |-> FALSE, fault |-> fault ]

\* What launching the control script can end in.
LaunchFaults == { None, "FileNotFoundError" }

\* No try statement stands around Popen: its fault leaves the method.
Swallowed(fault) == None

Uncaught(fault) == fault

\* The method stores the status it expects its verb to bring about.
OptimisticAction(verb, fault) ==
    /\ popen' = Record(popen, Popen(ScriptArgv(mssql_sh_path, verb), fault))
    /\ acts' = Record(acts, verb)
    /\ raised' = Uncaught(fault)
    /\ last_status' = IF verb = "stop" THEN STOPPED ELSE RUNNING
    /\ UNCHANGED << container_name, mssql_sh_path,
                    on_status_change, engine, result, polling, timeout_due,
                    timer_active, visible, recording, polls, calls, regs,
                    polled, runs >>

\* start(), stop() or restart(), named by its verb.
action(verb, fault) ==
    /\ popen' = Record(popen, Popen(ScriptArgv(mssql_sh_path, verb), fault))
    /\ acts' = Record(acts, verb)
    /\ raised' = Uncaught(fault)
    /\ UNCHANGED << container_name, mssql_sh_path, last_status,
                    on_status_change, engine, result, polling, timeout_due,
                    timer_active, visible, recording, polls, calls, regs,
                    polled, runs >>

---------------------------------------------------------------------------
(* A client that uses the monitor directly, as the tests do.               *)

\* "monitor.on_status_change = callback"
KeepFirst(slot, callback) == IF slot = None THEN callback ELSE slot

Assign(slot, callback) == callback

Direct == pc \in { "fresh", "direct" }

Register(callback) ==
    /\ Direct
    /\ Budget
    /\ on_status_change' = Assign(on_status_change, callback)
    /\ regs' = Record(regs, callback)
    /\ pc' = "direct"
    /\ UNCHANGED << container_name, mssql_sh_path, last_status, engine,
                    result, raised, polling, timeout_due, timer_active,
                    icon, toolTip, status_text, visible, recording,
                    polls, calls, popen, acts, polled, runs >>

DirectPoll(e, cbfault) ==
    /\ Direct
    /\ Budget
    /\ polled' = Count(polled, 1)
    /\ poll(e, cbfault)
    /\ pc' = "direct"
    /\ UNCHANGED << polling, timeout_due, visible >>

DirectAction(verb, fault) ==
    /\ Direct
    /\ Budget
    /\ action(verb, fault)
    /\ pc' = "direct"
    /\ UNCHANGED << icon, toolTip, status_text >>

---------------------------------------------------------------------------
(* MssqlTrayApp on the Qt event loop.                                      *)

\* The timer and the menu live on the GUI thread: a slot runs when the
\* thread is in the event loop and runs nothing else.
AlwaysIdle == TRUE

Idle == polling = 0

\* A fault that leaves a slot: PyQt prints it and the loop goes on, or
\* PyQt aborts the process.
AfterSlotFault == { "loop", "dead" }

\* MssqlTrayApp.__init__ up to the status query of its initial poll.
TrayInit ==
    /\ pc = "fresh"
    /\ icon' = color(UNKNOWN)
    /\ toolTip' = "MSSQL: checking..."
    /\ status_text' = "Status: checking..."
    /\ on_status_change' = Assign(on_status_change, TrayCallback)
    /\ regs' = Record(regs, TrayCallback)
    /\ timer_active' = TRUE
    /\ polling' = polling + 1
    /\ polled' = Count(polled, 1)
    /\ pc' = "ctor"
    /\ UNCHANGED << container_name, mssql_sh_path, last_status, engine,
                    result, raised, timeout_due, visible, recording,
                    polls, calls, popen, acts, runs >>

\* POLL_INTERVAL_MS have passed.
TimerExpires ==
    /\ pc \in { "ctor", "loop" }
    /\ timer_active
    /\ ~timeout_due
    /\ timeout_due' = TRUE
    /\ UNCHANGED << container_name, mssql_sh_path, last_status,
                    on_status_change, engine, result, raised, pc, polling,
                    timer_active, icon, toolTip, status_text, visible,
                    recording, polls, calls, regs, popen, acts, polled,
                    runs >>

\* The event loop runs the timer's slot, monitor.poll, up to its status query.
TimerPoll ==
    /\ pc = "loop"
    /\ timeout_due
    /\ Idle
    /\ Budget
    /\ timeout_due' = FALSE
    /\ polling' = polling + 1
    /\ polled' = Count(polled, 1)
    /\ UNCHANGED << container_name, mssql_sh_path, last_status,
                    on_status_change, engine, result, raised, pc,
                    timer_active, icon, toolTip, status_text, visible,
                    recording, polls, calls, regs, popen, acts, runs >>

\* The status query returns or raises, and the poll in progress runs to
\* its end; the initial poll's end is followed by tray.show() and
\* app.exec_().
PollReturn(e) ==
    /\ pc \in { "ctor", "loop" }
    /\ polling > 0
    /\ \E cbfault \in CallbackFaults(on_status_change) : poll(e, cbfault)
    /\ polling' = polling - 1
    /\ \E next \in AfterSlotFault :
          pc' = IF raised' = None THEN "loop"
                ELSE IF pc = "ctor" THEN "dead"
                ELSE next
    /\ visible' = (visible \/ (pc = "ctor" /\ raised' = None))
    /\ UNCHANGED << timeout_due, polled >>

Gerund(verb) ==
    CASE verb = "start"   -> "Starting..."
      [] verb = "stop"    -> "Stopping..."
      [] verb = "restart" -> "Restarting..."

\* _on_start, _on_stop, _on_restart.
MenuAction(verb, fault) ==
    /\ pc = "loop"
    /\ Idle
    /\ Budget
    /\ toolTip' = "MSSQL: " \o Gerund(verb)
    /\ status_text' = "Status: " \o Gerund(verb)
    /\ icon' = color(UNKNOWN)
    /\ action(verb, fault)
    /\ \E next \in AfterSlotFault :
          pc' = IF raised' = None THEN "loop" ELSE next

Next ==
    \/ \E callback \in ClientCallbacks : Register(callback)
    \/ \E e \in DynEngines, cbfault \in CallbackFaults(on_status_change) :
          DirectPoll(e, cbfault)
    \/ \E verb \in Verbs, fault \in LaunchFaults : DirectAction(verb, fault)
    \/ TrayInit
    \/ TimerExpires
    \/ TimerPoll
    \/ \E e \in DynEngines : PollReturn(e)
    \/ \E verb \in Verbs, fault \in LaunchFaults : MenuAction(verb, fault)

Spec == Init /\ [][Next]_vars

---------------------------------------------------------------------------
(* Classification alone: check_status applied once, to every configured    *)
(* name and every engine within the bounds.                                *)

ClassifyInit ==
    /\ InitCommon
    /\ container_name \in NamesUpTo(MaxConfLen)
    /\ engine = NoProbe
    /\ pc = "classify"
    /\ recording = FALSE

\* One check_status() call, on an engine within the bounds.
ClassifyProbe ==
    /\ pc = "classify"
    /\ \E e \in AllEngines :
          /\ engine' = e
          /\ result' = check_status(container_name, subprocess_run(e))
    /\ raised' = result'.raised
    /\ pc' = "classified"
    /\ UNCHANGED << container_name, mssql_sh_path, last_status,
                    on_status_change, polling, timeout_due, timer_active,
                    icon, toolTip, status_text, visible, recording,
                    polls, calls, regs, popen, acts, polled, runs >>

ClassifyNext == ClassifyProbe

SpecClassify == ClassifyInit /\ [][ClassifyNext]_vars

---------------------------------------------------------------------------
(* The program with no histories kept and no bound on its operations. The  *)
(* QTimer expires every POLL_INTERVAL_MS, the event loop runs its slot     *)
(* when the GUI thread is free, and the status query ends within its       *)
(* timeout.                                                                *)

LiveInit ==
    /\ InitCommon
    /\ container_name = CONTAINER_NAME
    /\ engine = NoProbe
    /\ pc = "fresh"
    /\ recording = FALSE

LiveSpec ==
    /\ LiveInit
    /\ [][Next]_vars
    /\ WF_vars(TimerExpires)
    /\ WF_vars(TimerPoll)
    /\ WF_vars(\E e \in DynEngines : PollReturn(e))

---------------------------------------------------------------------------
(* What the histories say.                                                 *)

\* The statuses the polls classified, in order.
Statuses == [ i \in DOMAIN polls |-> polls[i].status ]

\* The arguments of the callback invocations, in order.
Arguments == [ k \in DOMAIN calls |-> calls[k].arg ]

\* The callback invocations made by the i-th classifying poll.
CallsOf(i) == { k \in DOMAIN calls : calls[k].poll = i }

\* The i-th classification starts a maximal run of equal classifications.
RunStart(i) == i = 1 \/ polls[i].status # polls[i - 1].status

\* Every classifying poll ran with a callback registered.
Heard == \A i \in DOMAIN polls : polls[i].cb # None

\* seq with each run of equal consecutive elements cut to its first.
RECURSIVE Dedup(_)
Dedup(seq) ==
    IF Len(seq) <= 1 THEN seq
    ELSE LET front == SubSeq(seq, 1, Len(seq) - 1)
         IN  IF seq[Len(seq)] = seq[Len(seq) - 1] THEN Dedup(front)
             ELSE Append(Dedup(front), seq[Len(seq)])

\* other holds name at some place.
IsSubstring(name, other) ==
    \E k \in 0 .. Len(other) :
        /\ k + Len(name) <= Len(other)
        /\ SubSeq(other, k + 1, k + Len(name)) = name

\* The tray shows status s.
Shows(s) ==
    /\ toolTip = "MSSQL: " \o label(s)
    /\ status_text = "Status: " \o label(s)
    /\ icon = color(s)

\* The tray shows the text a menu action set.
Transitional ==
    /\ toolTip \in { "MSSQL: " \o Gerund(verb) : verb \in Verbs }
    /\ icon = color(UNKNOWN)

---------------------------------------------------------------------------
(* Properties.                                                             *)

\* C1: on a monitor with a registered callback, the callback is invoked
\* exactly once by the poll that observes the first element of each maximal
\* run of equal classifications, and not at all by the later polls of the
\* run.
C1_OncePerRun ==
    Heard =>
        \A i \in DOMAIN polls :
            Cardinality(CallsOf(i)) = IF RunStart(i) THEN 1 ELSE 0

\* C1 witness: a run of two equal classifications, then a change; the
\* callback ran for the first and the third poll.
C1_Witness ==
    /\ Heard
    /\ Len(polls) = 3
    /\ polls[1].status = polls[2].status
    /\ polls[3].status # polls[2].status
    /\ Len(calls) = 2
    /\ calls[1].poll = 1
    /\ calls[2].poll = 3

\* C2: the first poll that classifies a status on a fresh monitor invokes
\* the registered callback exactly once, with that status, whichever status
\* it is; the tray registers its callback before its initial poll, so the
\* tray's callback gets the first classification.
C2_FirstPollNotifies ==
    /\ (Len(polls) >= 1 /\ polls[1].cb # None) =>
           /\ Cardinality(CallsOf(1)) = 1
           /\ calls[1].cb = polls[1].cb
           /\ calls[1].arg = polls[1].status
           /\ calls[1].poll = 1
    /\ pc = "ctor" =>
           /\ on_status_change = TrayCallback
           /\ last_status = None
           /\ polls = << >>
    /\ pc = "loop" =>
           /\ Len(polls) >= 1
           /\ calls[1].cb = TrayCallback
           /\ calls[1].arg = polls[1].status
           /\ calls[1].poll = 1

\* C2 witness: the tray's initial poll timed out, and the tray shows
\* Unknown.
C2_Witness ==
    /\ pc = "loop"
    /\ Len(polls) = 1
    /\ polls[1].status = UNKNOWN
    /\ Len(calls) = 1
    /\ calls[1].cb = TrayCallback
    /\ calls[1].arg = UNKNOWN
    /\ Shows(UNKNOWN)

\* C3: check_status() classifies every outcome of the status query:
\* Running when the configured name is one of the listed names, Stopped
\* when the query returns without it, Unknown when the query raises.
C3_Classifies ==
    pc = "classified" =>
        result = IF engine.kind = "completed"
                 THEN IF \E i \in DOMAIN engine.names :
                              engine.names[i] = container_name
                      THEN Returned(RUNNING)
                      ELSE Returned(STOPPED)
                 ELSE Returned(UNKNOWN)

\* The part of C3 that holds: the classification of the outcomes other
\* than the faults the except clause leaves out.
ClassifiesHandled ==
    (pc = "classified" /\ result.raised = None) => C3_Classifies

\* C4: when the configured name is no listed name and is a part of some
\* listed name, check_status() returns Stopped.
C4_ExactLine ==
    ( /\ pc = "classified"
      /\ engine.kind = "completed"
      /\ \A i \in DOMAIN engine.names : engine.names[i] # container_name
      /\ \E i \in DOMAIN engine.names :
             IsSubstring(container_name, engine.names[i]) )
    => result = Returned(STOPPED)

\* C4 witness: "b" is configured and "aba" alone is listed; Stopped.
C4_Witness ==
    /\ pc = "classified"
    /\ container_name = << "b" >>
    /\ engine = Lists(0, << << "a", "b", "a" >> >>)
    /\ result = Returned(STOPPED)

\* C5: whichever way the status query fails, check_status() returns Unknown
\* and poll() returns normally.
C5_ProbeFailuresAbsorbed ==
    engine.kind = "raised" => result = Returned(UNKNOWN)

\* C6: every start(), stop() or restart() call makes one Popen call, of
\* the control script with the call's verb as its one argument, with
\* standard output and error discarded, and waits for nothing.
C6_OneInvocationPerAction ==
    /\ Len(popen) = Len(acts)
    /\ \A i \in DOMAIN popen :
           /\ popen[i].args = << mssql_sh_path, acts[i] >>
           /\ popen[i].stdout = "DEVNULL"
           /\ popen[i].stderr = "DEVNULL"
           /\ ~popen[i].waited

\* C6 witness: the menu's Stop, then its Restart, both launched.
C6_Witness ==
    /\ pc = "loop"
    /\ acts = << "stop", "restart" >>
    /\ Len(popen) = 2
    /\ popen[1].fault = None
    /\ popen[2].args = << MSSQL_SH_PATH, "restart" >>
    /\ popen[2].fault = None

\* C7: the callbacks come in the order of their polls, each with the
\* status its poll classified; with a callback registered at every poll,
\* their arguments are the classifications with consecutive duplicates
\* removed.
C7_InOrder ==
    /\ \A k \in DOMAIN calls :
           /\ calls[k].poll \in DOMAIN polls
           /\ calls[k].arg = polls[calls[k].poll].status
           /\ k > 1 => calls[k - 1].poll < calls[k].poll
    /\ Heard => Arguments = Dedup(Statuses)

\* C7 witness: Running, then two timeouts: the callback ran with Running
\* and once with Unknown.
C7_Witness ==
    /\ Heard
    /\ Statuses = << RUNNING, UNKNOWN, UNKNOWN >>
    /\ Arguments = << RUNNING, UNKNOWN >>
    /\ engine = Fails("TimeoutExpired")

\* C8: at most one poll() is in progress.
C8_NoOverlap == polling <= 1

\* C8 witness: after a menu action, the timer expired again while the poll
\* its slot started was in progress.
C8_Witness ==
    /\ polling = 1
    /\ timeout_due
    /\ pc = "loop"
    /\ Len(acts) >= 1

\* C9: if the tray stays in its event loop and the classified status stays
\* s from some poll on, then whenever the tray shows a menu action's
\* transitional text it later shows s.
C9_OutcomeBecomesVisible ==
    \A s \in ContainerStatus :
        <>[](pc = "loop" /\ result = Returned(s))
            => [](Transitional => <>Shows(s))

\* C10: every callback invocation is of the callback assigned last before
\* its poll, and a poll that sees a change with a callback assigned invokes
\* it once.
C10_SingleSlot ==
    /\ \A k \in DOMAIN calls :
           LET p == polls[calls[k].poll]
           IN  /\ p.nregs >= 1
               /\ calls[k].cb = regs[p.nregs]
    /\ \A i \in DOMAIN polls :
           Cardinality(CallsOf(i)) =
               IF RunStart(i) /\ polls[i].nregs >= 1 THEN 1 ELSE 0

\* C10 witness: a callback was invoked, another was assigned, and the next
\* change invoked the other.
C10_Witness ==
    /\ Len(regs) = 2
    /\ regs[1] # regs[2]
    /\ Len(calls) = 2
    /\ calls[1].cb = regs[1]
    /\ calls[2].cb = regs[2]

\* C11: ContainerStatus has exactly three values, color and label give
\* each of them the value the enumeration declares, distinct statuses have
\* distinct colours, the tray holds an icon for each status, and every
\* status a callback was given is one of them.
C11_ClosedEnumeration ==
    /\ Cardinality(ContainerStatus) = 3
    /\ ContainerStatus = { RUNNING, STOPPED, UNKNOWN }
    /\ color(RUNNING) = "green" /\ label(RUNNING) = "Running"
    /\ color(STOPPED) = "red" /\ label(STOPPED) = "Stopped"
    /\ color(UNKNOWN) = "yellow" /\ label(UNKNOWN) = "Unknown"
    /\ \A s, t \in ContainerStatus : s # t => color(s) # color(t)
    /\ DOMAIN icons = ContainerStatus
    /\ \A k \in DOMAIN calls :
           /\ calls[k].arg \in DOMAIN icons
           /\ icons[calls[k].arg] = color(calls[k].arg)
    /\ \A i \in DOMAIN polls : polls[i].status \in ContainerStatus
    /\ last_status \in ContainerStatus \cup { None }
    /\ pc \in { "loop", "dead" } => \E s \in ContainerStatus : icon = icons[s]

\* C11 witness: the tray's callback was given each of the three statuses
\* in turn and the tray shows the last of them.
C11_Witness ==
    /\ pc = "loop"
    /\ Len(calls) = 3
    /\ { calls[k].arg : k \in DOMAIN calls } = ContainerStatus
    /\ \A k \in DOMAIN calls : calls[k].cb = TrayCallback
    /\ Shows(calls[3].arg)
    /\ calls[3].arg = STOPPED

\* C12: a poll that classifies a status leaves _last_status equal to it;
\* _last_status changes exactly when the classified status differs from
\* the stored one (or none is stored); when they are equal the poll changes
\* neither the monitor's fields nor the display and calls nothing; when
\* they differ and a callback is registered the poll makes exactly one
\* callback invocation, with the classified status, within the same poll.
C12_WritesOnChange ==
    [][ Len(polls') = Len(polls) + 1 =>
          LET current == polls'[Len(polls')].status
          IN  /\ last_status' = current
              /\ last_status' # last_status <=> current # last_status
              /\ current = last_status =>
                     UNCHANGED << last_status, on_status_change,
                                  container_name, mssql_sh_path, calls,
                                  icon, toolTip, status_text >>
              /\ current # last_status /\ on_status_change # None =>
                     /\ Len(calls') = Len(calls) + 1
                     /\ calls'[Len(calls')].arg = current
                     /\ calls'[Len(calls')].cb = on_status_change
                     /\ calls'[Len(calls')].poll = Len(polls')
              /\ on_status_change = None => calls' = calls
      ]_vars

\* C12 witness: a poll found the stored status again and a later one
\* found another, which is now the stored one.
C12_Witness ==
    /\ pc = "direct"
    /\ Statuses = << STOPPED, STOPPED, RUNNING >>
    /\ last_status = RUNNING
    /\ Arguments = << STOPPED, RUNNING >>

\* C13: a start(), stop() or restart() call makes one Popen call and
\* leaves _last_status, container_name, mssql_sh_path and on_status_change
\* as they were, runs no status query and invokes no callback; and
\* _last_status changes only in a step in which a poll classifies.
C13_ActionsBypassPoll ==
    [][ /\ Len(acts') = Len(acts) + 1 =>
              /\ Len(popen') = Len(popen) + 1
              /\ UNCHANGED << last_status, container_name, mssql_sh_path,
                              on_status_change, engine, result, runs,
                              polled, polls, calls >>
        /\ last_status' # last_status => Len(polls') = Len(polls) + 1
      ]_vars

\* C13 witness: after a poll stored Running, start() and restart() were
\* called on the monitor and the stored status, the one status query and
\* the one callback invocation are all there is.
C13_Witness ==
    /\ pc = "direct"
    /\ acts = << "start", "restart" >>
    /\ Len(popen) = 2
    /\ last_status = RUNNING
    /\ polled = 1 /\ runs = 1
    /\ Len(polls) = 1 /\ Len(calls) = 1
    /\ raised = None

\* C14: _last_status is None until a poll has classified a status, and
\* is one of Running, Stopped, Unknown in every state after that.
C14_NeverBackToNone ==
    /\ Len(polls) = 0 => last_status = None
    /\ Len(polls) >= 1 => last_status \in ContainerStatus

\* C14 witness: the first poll stored Unknown, an action was launched and
\* a later poll ended in a fault; the stored status is still Unknown.
C14_Witness ==
    /\ Statuses = << UNKNOWN >>
    /\ polled = 2 /\ runs = 2
    /\ polling = 0
    /\ raised = "UnicodeDecodeError"
    /\ Len(acts) = 1
    /\ last_status = UNKNOWN

\* C15: when the script cannot be launched, the launch fault leaves
\* start(), stop() or restart() as a fault of the call, _last_status is
\* unchanged and no callback is invoked; in a tray handler the display
\* already holds the verb's transitional text and the Unknown icon.
C15_LaunchFaultPropagates ==
    [][ ( /\ Len(popen') = Len(popen) + 1
          /\ popen'[Len(popen')].fault # None ) =>
            /\ raised' = popen'[Len(popen')].fault
            /\ UNCHANGED << last_status, calls, polls >>
            /\ pc = "loop" =>
                   /\ toolTip' = "MSSQL: " \o Gerund(acts'[Len(acts')])
                   /\ status_text' = "Status: " \o Gerund(acts'[Len(acts')])
                   /\ icon' = color(UNKNOWN)
      ]_vars

\* C15 witness: the tray showed Running, Stop was chosen and the script
\* could not be launched: the fault is out, the stored status is Running
\* and the display says "Stopping...".
C15_Witness ==
    /\ pc \in AfterSlotFault
    /\ Len(popen) = 1
    /\ popen[1].fault = "FileNotFoundError"
    /\ raised = "FileNotFoundError"
    /\ acts = << "stop" >>
    /\ last_status = RUNNING
    /\ Arguments = << RUNNING >>
    /\ toolTip = "MSSQL: Stopping..."
    /\ icon = "yellow"

\* C16: when the status query returns, whatever its exit code,
\* check_status() returns Running if the configured name is one of the
\* listed names and Stopped otherwise, never Unknown, and the same as it
\* returns for the same output with exit code 0.
C16_ExitCodeIgnored ==
    (pc = "classified" /\ engine.kind = "completed") =>
        /\ result.raised = None
        /\ result.status # UNKNOWN
        /\ result.status = RUNNING <=>
               \E i \in DOMAIN engine.names :
                   engine.names[i] = container_name
        /\ result.status = STOPPED <=>
               \A i \in DOMAIN engine.names :
                   engine.names[i] # container_name
        /\ result = check_status(container_name,
                                 subprocess_run(Lists(0, engine.names)))

\* C16 witness: the query exits with 125 having listed the configured
\* name after another; Running.
C16_Witness ==
    /\ pc = "classified"
    /\ container_name = << "a" >>
    /\ engine = Lists(125, << << "b" >>, << "a" >> >>)
    /\ result = Returned(RUNNING)

\* C17: every poll that has ended made exactly one subprocess.run call,
\* whatever that call ended in: the calls made are as many as the polls
\* ended, so a failed status query is tried again only by a later poll.
C17_OneProbePerPoll ==
    /\ runs = polled - polling
    /\ Len(polls) <= runs

\* C17 witness: in the tray the first status query failed and the timer's
\* next poll made the second, which failed too: two polls, two calls.
C17_Witness ==
    /\ pc = "loop"
    /\ polling = 0
    /\ polled = 2
    /\ runs = 2
    /\ Statuses = << UNKNOWN, UNKNOWN >>
    /\ engine = Fails("FileNotFoundError")

\* C18: a poll that classifies a changed or first status with no callback
\* registered stores the status, invokes nothing and ends without a fault;
\* every callback invocation is made by a poll that ran with a callback
\* registered and classified a status other than the stored one, so a
\* callback registered later is not invoked for the status already stored.
C18_SilentWhenUnregistered ==
    /\ []( /\ \A i \in DOMAIN polls : polls[i].cb = None => CallsOf(i) = { }
           /\ Len(polls) >= 1 => last_status = polls[Len(polls)].status
           /\ \A k \in DOMAIN calls :
                  /\ polls[calls[k].poll].cb # None
                  /\ RunStart(calls[k].poll) )
    /\ [][ ( /\ Len(polls') = Len(polls) + 1
             /\ on_status_change = None ) =>
               /\ raised' = None
               /\ last_status' = polls'[Len(polls')].status
               /\ calls' = calls
         ]_vars

\* C18 witness: the first poll stored Stopped with no callback registered,
\* a callback was registered, the next poll found Stopped again and
\* invoked nothing, and the poll after it found Running and invoked it.
C18_Witness ==
    /\ Statuses = << STOPPED, STOPPED, RUNNING >>
    /\ polls[1].cb = None /\ polls[1].nregs = 0
    /\ polls[2].cb # None /\ polls[2].nregs = 1
    /\ Len(regs) = 1
    /\ Len(calls) = 1
    /\ calls[1].poll = 3
    /\ calls[1].arg = RUNNING

\* C19: at every callback invocation _last_status already equals the
\* callback's argument; when the callback raises, the fault leaves poll()
\* with _last_status equal to that argument, and the following polls that
\* classify the same status invoke nothing.
C19_StoredBeforeCallback ==
    /\ []( \A k \in DOMAIN calls :
             /\ calls[k].last = calls[k].arg
             /\ calls[k].fault # None =>
                    \A j \in DOMAIN polls :
                        ( /\ j > calls[k].poll
                          /\ \A m \in calls[k].poll .. j :
                                 polls[m].status = calls[k].arg )
                        => CallsOf(j) = { } )
    /\ [][ ( /\ Len(calls') = Len(calls) + 1
             /\ calls'[Len(calls')].fault # None ) =>
               /\ raised' = calls'[Len(calls')].fault
               /\ last_status' = calls'[Len(calls')].arg
         ]_vars

\* C19 witness: the callback raised when it was given Running; the next
\* poll found Running again, with the callback still registered, and
\* invoked nothing.
C19_Witness ==
    /\ Statuses = << RUNNING, RUNNING >>
    /\ Len(calls) = 1
    /\ calls[1].fault = "Exception"
    /\ calls[1].arg = RUNNING
    /\ calls[1].last = RUNNING
    /\ polls[2].cb # None
    /\ last_status = RUNNING
    /\ raised = None

====
